---------------------------- MODULE Spec2Model ----------------------------
(***************************************************************************)
(* Model of the Jumpstarter configuration web UI                           *)
(* (deploy/microshift-bootc/config-svc/app.py).                            *)
(*                                                                         *)
(* Text is modelled character by character: a Python str is a sequence of  *)
(* one-character strings, so that strip(), len(), the substring tests of   *)
(* yaml_value and the regular expressions of download_kubeconfig are       *)
(* computed as the code computes them.                                     *)
(***************************************************************************)
EXTENDS Integers, Sequences, FiniteSets, TLC

VARIABLES
    \* the machine the service runs on
    hostname,           \* the system hostname (hostnamectl, socket.gethostname)
    shadow_password,    \* the root account's password (chpasswd)
    cluster,            \* the manifest text kubectl applied last
    tmpfiles,           \* the temporary directory: name -> [exists, data]
    kubeconfig_present, \* whether the kubeconfig file exists
    kubeconfig_doc,     \* the content of the kubeconfig file
    \* the run
    threads,            \* the server threads that handle requests
    unreliable,         \* the external operations that may fail in this run
    \* one request handler per thread
    pc,                 \* where the handler of each thread stands
    req,                \* the request it handles
    loc,                \* the handler's local variables
    resp,               \* the response it returned
    trace,              \* the adapter calls and external commands of the request
    \* the YAML emitter on its own
    yaml_in,            \* the manifest value handed to json_to_yaml
    yaml_out,           \* the text json_to_yaml returned
    yaml_back,          \* what a YAML reader reconstructs from yaml_out
    yaml_pc             \* "value" -> "emitted" -> "loaded"

svc_vars == <<hostname, shadow_password, cluster, tmpfiles, kubeconfig_present,
              kubeconfig_doc, threads, unreliable, pc, req, loc, resp, trace>>
yaml_vars == <<yaml_in, yaml_out, yaml_back, yaml_pc>>
vars == <<svc_vars, yaml_vars>>

(***************************************************************************)
(* Character strings used by the program.                                  *)
(***************************************************************************)
S_apiVersion == <<"a", "p", "i", "V", "e", "r", "s", "i", "o", "n">>
S_kind == <<"k", "i", "n", "d">>
S_metadata == <<"m", "e", "t", "a", "d", "a", "t", "a">>
S_name == <<"n", "a", "m", "e">>
S_namespace == <<"n", "a", "m", "e", "s", "p", "a", "c", "e">>
S_spec == <<"s", "p", "e", "c">>
S_baseDomain == <<"b", "a", "s", "e", "D", "o", "m", "a", "i", "n">>
S_image == <<"i", "m", "a", "g", "e">>
S_api_group == <<"j", "u", "m", "p", "s", "t", "a", "r", "t", "e", "r", ".", "d", "e", "v", "/", "v", "1", "a", "l", "p", "h", "a", "1">>
S_Jumpstarter == <<"J", "u", "m", "p", "s", "t", "a", "r", "t", "e", "r">>
S_jumpstarter == <<"j", "u", "m", "p", "s", "t", "a", "r", "t", "e", "r">>
S_default == <<"d", "e", "f", "a", "u", "l", "t">>
S_null == <<"n", "u", "l", "l">>
S_true == <<"t", "r", "u", "e">>
S_false == <<"f", "a", "l", "s", "e">>

(***************************************************************************)
(* Generic text helpers (Python str operations).                           *)
(***************************************************************************)
\* ch in s
Contains(s, ch) == \E i \in 1..Len(s) : s[i] = ch

\* s.startswith(p)
StartsWith(s, p) == Len(s) >= Len(p) /\ SubSeq(s, 1, Len(p)) = p

\* s[i:].startswith(p), i counted from 1
MatchAt(s, i, p) == i + Len(p) - 1 <= Len(s) /\ SubSeq(s, i, i + Len(p) - 1) = p

\* ' ' * n
RECURSIVE Spaces(_)
Spaces(n) == IF n = 0 THEN <<>> ELSE <<" ">> \o Spaces(n - 1)

\* '\n'.join(lines)
RECURSIVE Join(_)
Join(lines) ==
    IF Len(lines) = 0 THEN <<>>
    ELSE IF Len(lines) = 1 THEN lines[1]
    ELSE lines[1] \o <<"\n">> \o Join(Tail(lines))

\* the characters str.strip() removes
Whitespace == {" ", "\t", "\n", "\r"}

RECURSIVE LStrip(_)
LStrip(s) == IF Len(s) > 0 /\ s[1] \in Whitespace THEN LStrip(Tail(s)) ELSE s

RECURSIVE RStrip(_)
RStrip(s) ==
    IF Len(s) > 0 /\ s[Len(s)] \in Whitespace THEN RStrip(SubSeq(s, 1, Len(s) - 1)) ELSE s

\* s.strip()
Strip(s) == RStrip(LStrip(s))

(***************************************************************************)
(* The manifest value model: a tagged value [t, v].                        *)
(*   "str"  : v is the text            "bool" : v is TRUE or FALSE         *)
(*   "null" : v is <<>>                "list" : v is a sequence of values  *)
(*   "map"  : v is a sequence of <<key, value>> pairs (a dict keeps its    *)
(*            insertion order)                                             *)
(***************************************************************************)
VStr(s) == [t |-> "str", v |-> s]
VBool(b) == [t |-> "bool", v |-> b]
VNull == [t |-> "null", v |-> <<>>]
VMap(items) == [t |-> "map", v |-> items]
VList(items) == [t |-> "list", v |-> items]

IsContainer(value) == value.t \in {"map", "list"}

(***************************************************************************)
(* yaml_value and json_to_yaml.  The final else of yaml_value (str(value)  *)
(* for numbers) is outside the value model and is not reached.             *)
(***************************************************************************)
yaml_value(value) ==
    IF value.t = "null" THEN S_null
    ELSE IF value.t = "bool" THEN (IF value.v THEN S_true ELSE S_false)
    ELSE IF Contains(value.v, ":") \/ Contains(value.v, "#") \/ StartsWith(value.v, <<"-">>)
         THEN <<"\"">> \o value.v \o <<"\"">>
         ELSE value.v

RECURSIVE json_to_yaml(_, _)
RECURSIVE dict_lines(_, _)
RECURSIVE list_lines(_, _)

\* the lines appended by the loop over obj.items()
dict_lines(items, indent) ==
    IF Len(items) = 0 THEN <<>>
    ELSE LET key == items[1][1]
             value == items[1][2]
             indent_str == Spaces(2 * indent)
         IN  (IF IsContainer(value)
              THEN << indent_str \o key \o <<":">>, json_to_yaml(value, indent + 1) >>
              ELSE << indent_str \o key \o <<":", " ">> \o yaml_value(value) >>)
             \o dict_lines(Tail(items), indent)

\* the lines appended by the loop over the list
list_lines(items, indent) ==
    IF Len(items) = 0 THEN <<>>
    ELSE LET item == items[1]
             indent_str == Spaces(2 * indent)
         IN  (IF IsContainer(item)
              THEN << indent_str \o <<"-">>, json_to_yaml(item, indent + 1) >>
              ELSE << indent_str \o <<"-", " ">> \o yaml_value(item) >>)
             \o list_lines(Tail(items), indent)

json_to_yaml(obj, indent) ==
    Join(IF obj.t = "map" THEN dict_lines(obj.v, indent)
         ELSE IF obj.t = "list" THEN list_lines(obj.v, indent)
         ELSE <<>>)

(***************************************************************************)
(* A YAML reader for the block subset the emitter writes (block mappings,  *)
(* block sequences, plain and double-quoted scalars, core-schema scalar    *)
(* resolution).  It is the reference the round trip is stated against, not *)
(* part of the program.                                                    *)
(***************************************************************************)
\* the lines of a text, split at "\n"
RECURSIVE SplitLines(_)
SplitLines(s) ==
    IF ~Contains(s, "\n") THEN <<s>>
    ELSE LET i == CHOOSE k \in 1..Len(s) : s[k] = "\n" /\ \A j \in 1..(k - 1) : s[j] # "\n"
         IN  <<SubSeq(s, 1, i - 1)>> \o SplitLines(SubSeq(s, i + 1, Len(s)))

RECURSIVE LeadingSpaces(_)
LeadingSpaces(s) == IF Len(s) > 0 /\ s[1] = " " THEN 1 + LeadingSpaces(Tail(s)) ELSE 0

\* the non-blank lines as [ind, body]: indentation and content
RECURSIVE YamlLines(_)
YamlLines(ls) ==
    IF Len(ls) = 0 THEN <<>>
    ELSE (IF Strip(ls[1]) = <<>> THEN <<>>
          ELSE << [ind |-> LeadingSpaces(ls[1]), body |-> Strip(ls[1])] >>)
         \o YamlLines(Tail(ls))

\* scalar resolution of the YAML core schema
YamlNullForms == { <<>>, <<"~">>, S_null, <<"N", "u", "l", "l">>, <<"N", "U", "L", "L">> }
YamlTrueForms == { S_true, <<"T", "r", "u", "e">>, <<"T", "R", "U", "E">> }
YamlFalseForms == { S_false, <<"F", "a", "l", "s", "e">>, <<"F", "A", "L", "S", "E">> }

YamlScalar(raw) ==
    LET s == Strip(raw)
    IN  IF Len(s) >= 2 /\ s[1] = "\"" /\ s[Len(s)] = "\""
        THEN VStr(SubSeq(s, 2, Len(s) - 1))
        ELSE IF s \in YamlNullForms THEN VNull
        ELSE IF s \in YamlTrueForms THEN VBool(TRUE)
        ELSE IF s \in YamlFalseForms THEN VBool(FALSE)
        ELSE VStr(s)

\* a sequence entry: "-" alone or "- scalar"
IsDash(body) == body = <<"-">> \/ StartsWith(body, <<"-", " ">>)

\* the position of the ":" that ends a mapping key (followed by a space or the
\* end of the line), 0 when there is none
KeyEnd(body) ==
    LET ends == { i \in 1..Len(body) :
                    body[i] = ":" /\ (i = Len(body) \/ body[i + 1] = " ") }
    IN  IF ends = {} THEN 0 ELSE CHOOSE i \in ends : \A j \in ends : i <= j

RECURSIVE YamlNode(_, _)
RECURSIVE YamlSeq(_, _, _)
RECURSIVE YamlMap(_, _, _)

\* the entries of the block sequence at indentation n, from line i on
YamlSeq(ls, i, n) ==
    IF i > Len(ls) \/ ls[i].ind # n \/ ~IsDash(ls[i].body)
    THEN [val |-> <<>>, next |-> i]
    ELSE LET rest == Strip(Tail(ls[i].body))
             nested == rest = <<>> /\ i + 1 <= Len(ls) /\ ls[i + 1].ind > n
             item == IF nested THEN YamlNode(ls, i + 1)
                     ELSE [val |-> YamlScalar(rest), next |-> i + 1]
             more == YamlSeq(ls, item.next, n)
         IN  [val |-> <<item.val>> \o more.val, next |-> more.next]

\* the entries of the block mapping at indentation n, from line i on
YamlMap(ls, i, n) ==
    IF i > Len(ls) \/ ls[i].ind # n \/ KeyEnd(ls[i].body) = 0
    THEN [val |-> <<>>, next |-> i]
    ELSE LET k == KeyEnd(ls[i].body)
             key == SubSeq(ls[i].body, 1, k - 1)
             rest == Strip(SubSeq(ls[i].body, k + 1, Len(ls[i].body)))
             nested == rest = <<>> /\ i + 1 <= Len(ls) /\ ls[i + 1].ind > n
             item == IF nested THEN YamlNode(ls, i + 1)
                     ELSE [val |-> YamlScalar(rest), next |-> i + 1]
             more == YamlMap(ls, item.next, n)
         IN  [val |-> << <<key, item.val>> >> \o more.val, next |-> more.next]

\* the block node that starts at line i
YamlNode(ls, i) ==
    IF IsDash(ls[i].body)
    THEN LET r == YamlSeq(ls, i, ls[i].ind) IN [val |-> VList(r.val), next |-> r.next]
    ELSE IF KeyEnd(ls[i].body) > 0
    THEN LET r == YamlMap(ls, i, ls[i].ind) IN [val |-> VMap(r.val), next |-> r.next]
    ELSE [val |-> YamlScalar(ls[i].body), next |-> i + 1]

\* the value a YAML reader loads from a document (an empty document is null)
yaml_load(text) ==
    LET ls == YamlLines(SplitLines(text))
    IN  IF Len(ls) = 0 THEN VNull ELSE YamlNode(ls, 1).val

(***************************************************************************)
(* The kubeconfig rewrite of download_kubeconfig: two re.sub calls.        *)
(* re.sub scans left to right and replaces the non-overlapping matches.    *)
(***************************************************************************)
RE_server == <<"s", "e", "r", "v", "e", "r", ":">>
RE_https == <<"h", "t", "t", "p", "s", ":", "/", "/">>
RE_https_localhost == <<"h", "t", "t", "p", "s", ":", "/", "/", "l", "o", "c", "a", "l", "h", "o", "s", "t", ":">>
S_server_https == <<"s", "e", "r", "v", "e", "r", ":", " ", "h", "t", "t", "p", "s", ":", "/", "/">>
S_insecure_line == <<" ", " ", " ", " ", "i", "n", "s", "e", "c", "u", "r", "e", "-", "s", "k", "i", "p", "-", "t", "l", "s", "-", "v", "e", "r", "i", "f", "y", ":", " ", "t", "r", "u", "e", "\n">>

\* \s and \d of Python's re (ASCII part)
RE_space == {" ", "\t", "\n", "\r"}
RE_digit == {"0", "1", "2", "3", "4", "5", "6", "7", "8", "9"}

\* how many characters of class cls follow from position i on (a greedy cls*)
RECURSIVE Run(_, _, _)
Run(s, i, cls) == IF i <= Len(s) /\ s[i] \in cls THEN 1 + Run(s, i + 1, cls) ELSE 0

NotNewline(s) == { s[i] : i \in 1..Len(s) } \ {"\n"}

\* server:\s+https://localhost:(\d+) tried at position i: the length matched
\* and the captured group, length 0 when it does not match there
match_localhost(s, i) ==
    LET ws == Run(s, i + Len(RE_server), RE_space)
        j == i + Len(RE_server) + ws
        d == Run(s, j + Len(RE_https_localhost), RE_digit)
    IN  IF MatchAt(s, i, RE_server) /\ ws >= 1 /\ MatchAt(s, j, RE_https_localhost) /\ d >= 1
        THEN [len |-> Len(RE_server) + ws + Len(RE_https_localhost) + d,
              port |-> SubSeq(s, j + Len(RE_https_localhost), j + Len(RE_https_localhost) + d - 1)]
        ELSE [len |-> 0, port |-> <<>>]

\* the same substitution with the port left out of the replacement
RECURSIVE sub_localhost_no_port(_, _, _)
sub_localhost_no_port(s, i, current_hostname) ==
    IF i > Len(s) THEN <<>>
    ELSE LET m == match_localhost(s, i)
         IN  IF m.len > 0
             THEN S_server_https \o current_hostname
                  \o sub_localhost_no_port(s, i + m.len, current_hostname)
             ELSE <<s[i]>> \o sub_localhost_no_port(s, i + 1, current_hostname)

\* re.sub(r'server:\s+https://localhost:(\d+)', f'server: https://{current_hostname}:\\1', s)
\* from position i on (the hostname holds no backslash, so it is copied as it is)
RECURSIVE sub_localhost(_, _, _)
sub_localhost(s, i, current_hostname) ==
    IF i > Len(s) THEN <<>>
    ELSE LET m == match_localhost(s, i)
         IN  IF m.len > 0
             THEN S_server_https \o current_hostname \o <<":">> \o m.port
                  \o sub_localhost(s, i + m.len, current_hostname)
             ELSE <<s[i]>> \o sub_localhost(s, i + 1, current_hostname)

\* (server:\s+https://[^\n]+\n) tried at position i: the length matched, 0 when
\* it does not match there
match_server_line(s, i) ==
    LET ws == Run(s, i + Len(RE_server), RE_space)
        j == i + Len(RE_server) + ws
        k == j + Len(RE_https)
        rest == Run(s, k, NotNewline(s))
    IN  IF MatchAt(s, i, RE_server) /\ ws >= 1 /\ MatchAt(s, j, RE_https)
           /\ rest >= 1 /\ k + rest <= Len(s) /\ s[k + rest] = "\n"
        THEN Len(RE_server) + ws + Len(RE_https) + rest + 1
        ELSE 0

\* re.sub(r'(server:\s+https://[^\n]+\n)', r'\1    insecure-skip-tls-verify: true\n', s)
RECURSIVE sub_insecure(_, _)
sub_insecure(s, i) ==
    IF i > Len(s) THEN <<>>
    ELSE LET m == match_server_line(s, i)
         IN  IF m > 0
             THEN SubSeq(s, i, i + m - 1) \o S_insecure_line \o sub_insecure(s, i + m)
             ELSE <<s[i]>> \o sub_insecure(s, i + 1)

\* the text download_kubeconfig serves for the file content and the hostname
rewrite_kubeconfig(kubeconfig_content, current_hostname) ==
    sub_insecure(sub_localhost(kubeconfig_content, 1, current_hostname), 1)


(***************************************************************************)
(* The service: bounds, inputs and the machine it runs on.                 *)
(***************************************************************************)
\* the temporary file names tempfile can draw (in reality a large random space)
MaxTempNames == 2
\* the longest kubeconfig document, in lines
MaxDocLines == 2
\* len(root_password) < 8
MinPasswordLen == 8

TempNames == 1..MaxTempNames
ThreadIds == {"t1", "t2"}

D_a == <<"a", ".", "i", "o">>
D_b == <<"b", ".", "i", "o">>
Img == <<"c", ":", "1">>
Pw7 == <<"p", "a", "s", "s", "w", "o", "r">>
Pw8 == <<"p", "a", "s", "s", "w", "o", "r", "d">>
InitialHostname == <<"e", "d", "g", "e">>
InitialRootPassword == <<"c", "h", "a", "n", "g", "e", "m", "e">>

\* request.form as the client sent it: two valid forms (the base domain of the
\* second one padded with spaces), and the first one with one field spoilt
Form(baseDomain, image, rootPassword) ==
    [baseDomain |-> baseDomain, image |-> image, rootPassword |-> rootPassword]
Forms ==
    { Form(D_a, Img, Pw8),
      Form(<<" ">> \o D_b \o <<" ">>, Img, Pw8),
      Form(<<" ", " ">>, Img, Pw8),
      Form(<<>>, Img, Pw8),
      Form(D_a, <<>>, Pw8),
      Form(D_a, Img, <<>>),
      Form(D_a, Img, Pw7) }
NoForm == [baseDomain |-> <<>>, image |-> <<>>, rootPassword |-> <<>>]

\* request.authorization: absent, or the username and password of Basic auth
S_root == <<"r", "o", "o", "t">>
S_admin == <<"a", "d", "m", "i", "n">>
NoAuth == [present |-> FALSE, username |-> <<>>, password |-> <<>>]
BasicAuth(username, password) ==
    [present |-> TRUE, username |-> username, password |-> password]
Credentials ==
    { NoAuth,
      BasicAuth(S_admin, InitialRootPassword),
      BasicAuth(S_root, InitialRootPassword),
      BasicAuth(S_root, Pw8) }

\* the three routes of the application
Urls == {"index", "configure", "kubeconfig"}

\* a request: the URL asked for, its credentials, what check_auth returned for
\* them, the view function that was entered ("none" while none is) and the form
NoRequest ==
    [url |-> "none", auth |-> NoAuth, checked |-> FALSE, route |-> "none", form |-> NoForm]

\* kubeconfig documents: up to MaxDocLines lines, the last one with or without
\* its line end
L_local == <<"s", "e", "r", "v", "e", "r", ":", " ", "h", "t", "t", "p", "s", ":", "/", "/", "l", "o", "c", "a", "l", "h", "o", "s", "t", ":", "6", "4", "4", "3">>
L_local2 == <<" ", " ", " ", " ", "s", "e", "r", "v", "e", "r", ":", " ", " ", "h", "t", "t", "p", "s", ":", "/", "/", "l", "o", "c", "a", "l", "h", "o", "s", "t", ":", "8", "0">>
L_other == <<"s", "e", "r", "v", "e", "r", ":", " ", "h", "t", "t", "p", "s", ":", "/", "/", "c", ".", "i", "o", ":", "4", "4", "3">>
L_name == <<"n", "a", "m", "e", ":", " ", "x">>
KubeLines == {L_local, L_local2, L_other, L_name}

RECURSIVE DocsOf(_)
DocsOf(n) ==
    IF n = 0 THEN {<<>>}
    ELSE {<<>>} \cup { l \o <<"\n">> \o d : l \in KubeLines, d \in DocsOf(n - 1) }

\* every document of 1..MaxDocLines lines, and the same without the final "\n"
KubeDocs ==
    LET full == DocsOf(MaxDocLines) \ {<<>>}
    IN  full \cup { SubSeq(d, 1, Len(d) - 1) : d \in full }

TypicalDoc == L_local \o <<"\n">>

\* What may go wrong in a run.  Each run draws one scenario, so that the three
\* sources of behaviour (failing adapters, concurrent requests, a changing
\* environment) are each explored in full without multiplying one another.
AdapterFaults == {"chpasswd", "hostnamectl", "mktemp", "write", "kubectl", "unlink"}
FileFaults == {"write", "unlink"}
EnvironmentFaults == {"ip", "open", "microshift"}
\* the pam module is not installed: check_auth falls back to su
PamMissing == {"pam", "su"}
Scenarios ==
    { [threads |-> {"t1"}, unreliable |-> AdapterFaults, docs |-> {TypicalDoc}],
      [threads |-> ThreadIds, unreliable |-> FileFaults, docs |-> {TypicalDoc}],
      [threads |-> {"t1"}, unreliable |-> EnvironmentFaults, docs |-> KubeDocs],
      [threads |-> {"t1"}, unreliable |-> PamMissing, docs |-> {TypicalDoc}] }

\* the outcomes of running an external program: exit 0; a non-zero exit with
\* text on stderr; a non-zero exit with empty stderr; the program cannot be
\* started (OSError)
CommandOutcomes(prog) ==
    IF prog \in unreliable THEN {"ok", "nonzero", "silent", "nostart"} ELSE {"ok"}
\* the outcomes of a file operation
FileOutcomes(op) == IF op \in unreliable THEN {"ok", "fail"} ELSE {"ok"}

\* an adapter call or an external operation, as the request's trace records it
Event(ev, name, outcome, arg, file) ==
    [ev |-> ev, name |-> name, outcome |-> outcome, arg |-> arg, file |-> file]
Call(name) == Event("call", name, "-", <<>>, 0)
Exec(name, outcome, arg) == Event("exec", name, outcome, arg, 0)
FileOp(name, outcome, file) == Event("file", name, outcome, <<>>, file)

\* a message of the page
Msg(type, code, detail, domain, image) ==
    [type |-> type, code |-> code, detail |-> detail, domain |-> domain, image |-> image]
Error(code, detail) == Msg("error", code, detail, <<>>, <<>>)

NoLocals ==
    [ base_domain |-> <<>>, image |-> <<>>, root_password |-> <<>>,
      current_hostname |-> <<>>, suggested_hostname |-> <<>>, messages |-> <<>>,
      password_success |-> FALSE, hostname_success |-> FALSE,
      f_name |-> 0, temp_file |-> 0, yaml_content |-> <<>>,
      cr_success |-> FALSE, cr_message |-> "", kubeconfig_content |-> <<>> ]

NoResponse ==
    [ status |-> 0, page |-> "none", text |-> "", messages |-> <<>>,
      current_hostname |-> <<>>, suggested_hostname |-> <<>>, body |-> <<>> ]

\* render_template_string(HTML_TEMPLATE, messages=..., current_hostname=..., suggested_hostname=...)
render_template_string(messages, current_hostname, suggested_hostname) ==
    [ status |-> 200, page |-> "html", text |-> "", messages |-> messages,
      current_hostname |-> current_hostname, suggested_hostname |-> suggested_hostname,
      body |-> <<>> ]

\* an exception that leaves a view function: Flask answers 500
UnhandledFault ==
    [ status |-> 500, page |-> "fault", text |-> "Internal Server Error", messages |-> <<>>,
      current_hostname |-> <<>>, suggested_hostname |-> <<>>, body |-> <<>> ]

\* return "<text>", <status>
PlainResponse(status, text) ==
    [ status |-> status, page |-> "text", text |-> text, messages |-> <<>>,
      current_hostname |-> <<>>, suggested_hostname |-> <<>>, body |-> <<>> ]

\* send_file(BytesIO(...), as_attachment=True, download_name='kubeconfig')
send_file(content) ==
    [ status |-> 200, page |-> "attachment", text |-> "kubeconfig", messages |-> <<>>,
      current_hostname |-> <<>>, suggested_hostname |-> <<>>, body |-> content ]

(***************************************************************************)
(* The helpers and adapters.  An adapter returns [success, message] and,   *)
(* were an exception to leave it, raised = TRUE.                           *)
(***************************************************************************)
\* socket.gethostname() does not fail on a running system: the except branch
\* ("unknown") is kept for the record and not taken
S_unknown == <<"u", "n", "k", "n", "o", "w", "n">>
get_current_hostname(ok) == IF ok THEN hostname ELSE S_unknown

\* get_default_route_ip: `ip route show default`, then `ip -4 addr show <dev>`.
\* route: "fail" (the command fails), "no_dev" (no usable default route in its
\* output), "dev"; addr: "fail", "no_inet" (no inet line), "inet".
\* Returns the address ("" for None) and the commands it ran.
RouteOutcomes == IF "ip" \in unreliable THEN {"fail", "no_dev", "dev"} ELSE {"dev"}
AddrOutcomes == IF "ip" \in unreliable THEN {"fail", "no_inet", "inet"} ELSE {"inet"}
get_default_route_ip(route, addr) ==
    IF route = "fail"
    THEN [ip |-> "", events |-> <<Exec("ip route", "nonzero", <<>>)>>]
    ELSE IF route = "no_dev"
    THEN [ip |-> "", events |-> <<Exec("ip route", "ok", <<>>)>>]
    ELSE IF addr = "fail"
    THEN [ip |-> "", events |-> <<Exec("ip route", "ok", <<>>), Exec("ip addr", "nonzero", <<>>)>>]
    ELSE IF addr = "no_inet"
    THEN [ip |-> "", events |-> <<Exec("ip route", "ok", <<>>), Exec("ip addr", "ok", <<>>)>>]
    ELSE [ip |-> "192-168-1-10",
          events |-> <<Exec("ip route", "ok", <<>>), Exec("ip addr", "ok", <<>>)>>]

\* f"jumpstarter.{default_ip}.nip.io" if default_ip else "jumpstarter.local"
suggest_hostname(default_ip) ==
    IF default_ip # "" THEN <<"jumpstarter.", default_ip, ".nip.io">>
    ELSE <<"jumpstarter.local">>

\* a set_hostname that catches CalledProcessError only
set_hostname_uncaught(outcome) ==
    IF outcome = "ok" THEN [success |-> TRUE, message |-> "Success", raised |-> FALSE]
    ELSE IF outcome \in {"nonzero", "silent"}
    THEN [success |-> FALSE, message |-> "stderr", raised |-> FALSE]
    ELSE [success |-> FALSE, message |-> "str(e)", raised |-> TRUE]

\* set_hostname: hostnamectl set-hostname <hostname>, check=True
set_hostname(outcome) ==
    IF outcome = "ok" THEN [success |-> TRUE, message |-> "Success", raised |-> FALSE]
    ELSE IF outcome = "nonzero"
    THEN [success |-> FALSE, message |-> "stderr", raised |-> FALSE]
    ELSE [success |-> FALSE, message |-> "str(e)", raised |-> FALSE]

\* set_root_password: Popen(['chpasswd']), communicate('root:<password>\n')
set_root_password(outcome) ==
    IF outcome = "ok" THEN [success |-> TRUE, message |-> "Success", raised |-> FALSE]
    ELSE IF outcome = "nonzero"
    THEN [success |-> FALSE, message |-> "stderr", raised |-> FALSE]
    ELSE IF outcome = "silent"
    THEN [success |-> FALSE, message |-> "Unknown error", raised |-> FALSE]
    ELSE [success |-> FALSE, message |-> "str(e)", raised |-> FALSE]

\* the stdin chpasswd is given
chpasswd_input(password) == <<"r", "o", "o", "t", ":">> \o password \o <<"\n">>

\* the result of apply_jumpstarter_cr when its stage ("mktemp", "write",
\* "kubectl") ends with the outcome
apply_result(stage, outcome) ==
    IF stage = "kubectl" /\ outcome = "ok"
    THEN [success |-> TRUE, message |-> "stdout", raised |-> FALSE]
    ELSE IF stage = "kubectl" /\ outcome = "nonzero"
    THEN [success |-> FALSE, message |-> "stderr", raised |-> FALSE]
    ELSE [success |-> FALSE, message |-> "str(e)", raised |-> FALSE]

\* the cr dict of apply_jumpstarter_cr
jumpstarter_cr(base_domain, image) ==
    VMap(<< <<S_apiVersion, VStr(S_api_group)>>,
            <<S_kind, VStr(S_Jumpstarter)>>,
            <<S_metadata, VMap(<< <<S_name, VStr(S_jumpstarter)>>,
                                  <<S_namespace, VStr(S_default)>> >>)>>,
            <<S_spec, VMap(<< <<S_baseDomain, VStr(base_domain)>>,
                              <<S_image, VStr(image)>> >>)>> >>)

\* a temporary file opened under a name that may be in use
any_names(files) == TempNames

\* tempfile.NamedTemporaryFile(delete=False): a name no file has (O_EXCL)
fresh_names(files) == { n \in TempNames : ~files[n].exists }

\* a handler that gives up after a failed password step
StepAfterPassword_abort(password_success) == IF password_success THEN "hostname" ELSE "done"

\* configure_jumpstarter goes on to the next step whatever the result of the
\* step before
StepAfterPassword(password_success) == "hostname"
StepAfterHostname(hostname_success) == "mktemp"

\* a validation that has lost its password branch
validate_no_password(base_domain, image, root_password) ==
    IF base_domain = <<>> THEN <<Error("base_domain_required", "")>>
    ELSE IF image = <<>> THEN <<Error("image_required", "")>>
    ELSE <<>>

\* the validation of configure_jumpstarter: the messages it appends
validate(base_domain, image, root_password) ==
    IF base_domain = <<>> THEN <<Error("base_domain_required", "")>>
    ELSE IF image = <<>> THEN <<Error("image_required", "")>>
    ELSE IF root_password = <<>> \/ Len(root_password) < MinPasswordLen
    THEN <<Error("password_required", "")>>
    ELSE <<>>

\* a report whose last branch does not report the manifest failure
configure_report_silent(messages, password_success, hostname_success, cr_success, cr_message, base_domain, image) ==
    IF password_success /\ hostname_success /\ cr_success
    THEN Append(messages, Msg("success", "applied", "", base_domain, image))
    ELSE IF cr_success \/ hostname_success
    THEN (IF ~cr_success THEN Append(messages, Error("cr_failed", cr_message)) ELSE messages)
    ELSE messages

\* the end of configure_jumpstarter: the messages after the three steps
configure_report(messages, password_success, hostname_success, cr_success, cr_message, base_domain, image) ==
    IF password_success /\ hostname_success /\ cr_success
    THEN Append(messages, Msg("success", "applied", "", base_domain, image))
    ELSE IF cr_success \/ hostname_success
    THEN (IF ~cr_success THEN Append(messages, Error("cr_failed", cr_message)) ELSE messages)
    ELSE (IF ~cr_success THEN Append(messages, Error("cr_failed", cr_message)) ELSE messages)


machine_vars == <<hostname, shadow_password, cluster, tmpfiles, kubeconfig_present,
                  kubeconfig_doc>>
run_vars == <<threads, unreliable>>

(***************************************************************************)
(* requires_auth: every route is wrapped; the wrapper answers 401 or calls *)
(* the view function.                                                      *)
(***************************************************************************)
\* what the authentication backend answers for the credentials.  With the pam
\* module: p.authenticate accepts the root password of the shadow file and
\* rejects any other; what it says of other accounts is not known.  Without
\* it: the exit of `su <username> -c true`, which depends on who runs it.
AuthOutcomes(auth) ==
    IF "pam" \notin unreliable
    THEN (IF auth.username # S_root THEN {"accept", "reject"}
          ELSE IF auth.password = shadow_password THEN {"accept"} ELSE {"reject"})
    ELSE CommandOutcomes("su")

\* a check that has lost its test of the username
check_auth_any_user(username, password, outcome) ==
    IF "pam" \notin unreliable THEN outcome = "accept" ELSE outcome = "ok"

\* check_auth: only root; pam.authenticate, or on ImportError returncode == 0
\* of su, False when su cannot be run or times out
check_auth(username, password, outcome) ==
    IF username # S_root THEN FALSE
    ELSE IF "pam" \notin unreliable THEN outcome = "accept"
    ELSE outcome = "ok"

\* authenticate(): the 401 response that asks for Basic auth
authenticate == PlainResponse(401, "Authentication required")

\* decorated(): if not auth or not check_auth(...): return authenticate();
\* return f(*args, **kwargs)
requires_auth(t) ==
    /\ t \in threads
    /\ pc[t] = "idle"
    /\ \E url \in Urls, auth \in Credentials :
         \E outcome \in AuthOutcomes(auth) :
           LET checked == auth.present
                          /\ check_auth(auth.username, auth.password, outcome)
           IN  /\ req' = [req EXCEPT ![t] =
                            [NoRequest EXCEPT !.url = url, !.auth = auth,
                                              !.checked = checked]]
               /\ IF ~auth.present \/ ~checked
                  THEN /\ pc' = [pc EXCEPT ![t] = "done"]
                       /\ resp' = [resp EXCEPT ![t] = authenticate]
                  ELSE /\ pc' = [pc EXCEPT ![t] = "authed"]
                       /\ resp' = resp
    /\ UNCHANGED <<machine_vars, run_vars, loc, trace, yaml_vars>>

\* GET /: the page with the current and the suggested hostname
index(t) ==
    /\ t \in threads
    /\ pc[t] = "authed"
    /\ req[t].url = "index"
    /\ \E route \in RouteOutcomes, addr \in AddrOutcomes :
         LET current_hostname == get_current_hostname(TRUE)
             default_ip == get_default_route_ip(route, addr)
             suggested_hostname == suggest_hostname(default_ip.ip)
         IN  /\ req' = [req EXCEPT ![t] = [@ EXCEPT !.route = "index"]]
             /\ trace' = [trace EXCEPT ![t] = default_ip.events]
             /\ loc' = [loc EXCEPT ![t] =
                          [NoLocals EXCEPT !.current_hostname = current_hostname,
                                           !.suggested_hostname = suggested_hostname]]
             /\ resp' = [resp EXCEPT ![t] =
                           render_template_string(<<>>, current_hostname,
                                                  suggested_hostname)]
             /\ pc' = [pc EXCEPT ![t] = "done"]
    /\ UNCHANGED <<machine_vars, run_vars, yaml_vars>>

(***************************************************************************)
(* POST /configure-jumpstarter.  The handler is cut where it touches the   *)
(* machine: validation, chpasswd, hostnamectl, and the four file system    *)
(* steps of apply_jumpstarter_cr (create, write, kubectl, unlink).         *)
(***************************************************************************)

\* apply_jumpstarter_cr returns r and configure_jumpstarter reports and renders
ConfigureReturn(t, locals, r, events) ==
    LET messages == configure_report(locals.messages, locals.password_success,
                                     locals.hostname_success, r.success, r.message,
                                     locals.base_domain, locals.image)
    IN  /\ pc' = [pc EXCEPT ![t] = "done"]
        /\ trace' = [trace EXCEPT ![t] = @ \o events]
        /\ loc' = [loc EXCEPT ![t] = [locals EXCEPT !.cr_success = r.success,
                                                    !.cr_message = r.message,
                                                    !.messages = messages]]
        /\ resp' = [resp EXCEPT ![t] =
                      IF r.raised THEN UnhandledFault
                      ELSE render_template_string(messages, locals.current_hostname,
                                                  locals.suggested_hostname)]

\* the form is read, the page data gathered and the form validated
ConfigureStart(t) ==
    /\ t \in threads
    /\ pc[t] = "authed"
    /\ req[t].url = "configure"
    /\ \E form \in Forms, route \in RouteOutcomes, addr \in AddrOutcomes :
         LET base_domain == Strip(form.baseDomain)
             image == Strip(form.image)
             current_hostname == get_current_hostname(TRUE)
             default_ip == get_default_route_ip(route, addr)
             suggested_hostname == suggest_hostname(default_ip.ip)
             messages == validate(base_domain, image, form.rootPassword)
         IN  /\ req' = [req EXCEPT ![t] = [@ EXCEPT !.route = "configure", !.form = form]]
             /\ trace' = [trace EXCEPT ![t] = default_ip.events]
             /\ loc' = [loc EXCEPT ![t] =
                          [NoLocals EXCEPT !.base_domain = base_domain,
                                           !.image = image,
                                           !.root_password = form.rootPassword,
                                           !.current_hostname = current_hostname,
                                           !.suggested_hostname = suggested_hostname,
                                           !.messages = messages]]
             /\ IF messages # <<>>
                THEN /\ pc' = [pc EXCEPT ![t] = "done"]
                     /\ resp' = [resp EXCEPT ![t] =
                                   render_template_string(messages, current_hostname,
                                                          suggested_hostname)]
                ELSE /\ pc' = [pc EXCEPT ![t] = "password"]
                     /\ resp' = [resp EXCEPT ![t] = NoResponse]
    /\ UNCHANGED <<machine_vars, run_vars, yaml_vars>>

\* password_success, password_message = set_root_password(root_password)
SetRootPassword(t) ==
    /\ pc[t] = "password"
    /\ \E outcome \in CommandOutcomes("chpasswd") :
         LET r == set_root_password(outcome)
         IN  /\ trace' = [trace EXCEPT ![t] = @ \o
                            << Call("set_root_password"),
                               Exec("chpasswd", outcome, chpasswd_input(loc[t].root_password)) >>]
             /\ shadow_password' = IF outcome = "ok" THEN loc[t].root_password
                                   ELSE shadow_password
             /\ IF r.raised
                THEN /\ pc' = [pc EXCEPT ![t] = "done"]
                     /\ resp' = [resp EXCEPT ![t] = UnhandledFault]
                     /\ loc' = loc
                ELSE /\ pc' = [pc EXCEPT ![t] = StepAfterPassword(r.success)]
                     /\ resp' = resp
                     /\ loc' = [loc EXCEPT ![t] =
                                  [@ EXCEPT !.password_success = r.success,
                                            !.messages =
                                                IF ~r.success
                                                THEN Append(@, Error("password_failed", r.message))
                                                ELSE @]]
    /\ UNCHANGED <<hostname, cluster, tmpfiles, kubeconfig_present, kubeconfig_doc,
                   run_vars, req, yaml_vars>>

\* hostname_success, hostname_message = set_hostname(base_domain)
SetHostname(t) ==
    /\ pc[t] = "hostname"
    /\ \E outcome \in CommandOutcomes("hostnamectl") :
         LET r == set_hostname(outcome)
         IN  /\ trace' = [trace EXCEPT ![t] = @ \o
                            << Call("set_hostname"),
                               Exec("hostnamectl", outcome, loc[t].base_domain) >>]
             /\ hostname' = IF outcome = "ok" THEN loc[t].base_domain ELSE hostname
             /\ IF r.raised
                THEN /\ pc' = [pc EXCEPT ![t] = "done"]
                     /\ resp' = [resp EXCEPT ![t] = UnhandledFault]
                     /\ loc' = loc
                ELSE /\ pc' = [pc EXCEPT ![t] = StepAfterHostname(r.success)]
                     /\ resp' = resp
                     /\ loc' = [loc EXCEPT ![t] =
                                  [@ EXCEPT !.hostname_success = r.success,
                                            !.current_hostname =
                                                IF r.success THEN loc[t].base_domain ELSE @,
                                            !.messages =
                                                IF ~r.success
                                                THEN Append(@, Error("hostname_failed", r.message))
                                                ELSE @]]
    /\ UNCHANGED <<shadow_password, cluster, tmpfiles, kubeconfig_present, kubeconfig_doc,
                   run_vars, req, yaml_vars>>

\* apply_jumpstarter_cr is entered: tempfile.NamedTemporaryFile(mode='w', delete=False)
ApplyCreateTemp(t) ==
    /\ pc[t] = "mktemp"
    /\ \E outcome \in FileOutcomes("mktemp") :
         IF outcome = "ok" /\ fresh_names(tmpfiles) # {}
         THEN \E n \in fresh_names(tmpfiles) :
                /\ tmpfiles' = [tmpfiles EXCEPT ![n] = [exists |-> TRUE, data |-> <<>>]]
                /\ loc' = [loc EXCEPT ![t] = [@ EXCEPT !.f_name = n]]
                /\ trace' = [trace EXCEPT ![t] = @ \o
                               <<Call("apply_jumpstarter_cr"), FileOp("mktemp", "ok", n)>>]
                /\ pc' = [pc EXCEPT ![t] = "write"]
                /\ resp' = resp
         ELSE /\ tmpfiles' = tmpfiles
              /\ ConfigureReturn(t, loc[t], apply_result("mktemp", "fail"),
                                 <<Call("apply_jumpstarter_cr"), FileOp("mktemp", "fail", 0)>>)
    /\ UNCHANGED <<hostname, shadow_password, cluster, kubeconfig_present, kubeconfig_doc,
                   run_vars, req, yaml_vars>>

\* yaml_content = json_to_yaml(cr); f.write(yaml_content); temp_file = f.name;
\* the file is closed.  A failure leaves the with block by an exception.
ApplyWrite(t) ==
    /\ pc[t] = "write"
    /\ \E outcome \in FileOutcomes("write") :
         LET n == loc[t].f_name
             yaml_content == json_to_yaml(jumpstarter_cr(loc[t].base_domain, loc[t].image), 0)
         IN  IF outcome = "ok"
             THEN /\ tmpfiles' = [tmpfiles EXCEPT ![n] =
                                    IF @.exists THEN [exists |-> TRUE, data |-> yaml_content]
                                    ELSE @]
                  /\ loc' = [loc EXCEPT ![t] = [@ EXCEPT !.temp_file = n,
                                                         !.yaml_content = yaml_content]]
                  /\ trace' = [trace EXCEPT ![t] = Append(@, FileOp("write", "ok", n))]
                  /\ pc' = [pc EXCEPT ![t] = "kubectl"]
                  /\ resp' = resp
             ELSE /\ tmpfiles' = tmpfiles
                  /\ ConfigureReturn(t, loc[t], apply_result("write", "fail"),
                                     <<FileOp("write", "fail", n)>>)
    /\ UNCHANGED <<hostname, shadow_password, cluster, kubeconfig_present, kubeconfig_doc,
                   run_vars, req, yaml_vars>>

\* subprocess.run(['kubectl', 'apply', '-f', temp_file], check=True): kubectl
\* reads the file of that name as it is now; it cannot apply a missing or an
\* empty file
ApplyKubectl(t) ==
    /\ pc[t] = "kubectl"
    /\ LET n == loc[t].temp_file
           file == tmpfiles[n]
           readable == file.exists /\ file.data # <<>>
       IN  \E outcome \in (IF readable THEN CommandOutcomes("kubectl") ELSE {"nonzero"}) :
             LET r == apply_result("kubectl", outcome)
                 read == IF outcome = "nostart" \/ ~file.exists THEN <<>> ELSE file.data
             IN  /\ cluster' = IF outcome = "ok" THEN file.data ELSE cluster
                 /\ trace' = [trace EXCEPT ![t] =
                                Append(@, Event("exec", "kubectl", outcome, read, n))]
                 /\ loc' = [loc EXCEPT ![t] = [@ EXCEPT !.cr_success = r.success,
                                                        !.cr_message = r.message]]
                 /\ pc' = [pc EXCEPT ![t] = "unlink"]
    /\ UNCHANGED <<hostname, shadow_password, tmpfiles, kubeconfig_present, kubeconfig_doc,
                   run_vars, req, resp, yaml_vars>>

\* finally: os.unlink(temp_file), its failure swallowed; then the result of
\* the kubectl step is returned
ApplyUnlink(t) ==
    /\ pc[t] = "unlink"
    /\ \E outcome \in FileOutcomes("unlink") :
         LET n == loc[t].temp_file
             done == IF tmpfiles[n].exists THEN outcome ELSE "fail"
         IN  /\ tmpfiles' = IF done = "ok"
                            THEN [tmpfiles EXCEPT ![n] = [exists |-> FALSE, data |-> <<>>]]
                            ELSE tmpfiles
             /\ ConfigureReturn(t, loc[t],
                                [success |-> loc[t].cr_success, message |-> loc[t].cr_message,
                                 raised |-> FALSE],
                                <<FileOp("unlink", done, n)>>)
    /\ UNCHANGED <<hostname, shadow_password, cluster, kubeconfig_present, kubeconfig_doc,
                   run_vars, req, yaml_vars>>

(***************************************************************************)
(* GET /kubeconfig: the existence check, then the read and the rewrite.    *)
(***************************************************************************)
\* if not kubeconfig_path.exists(): return "Kubeconfig file not found", 404
DownloadCheck(t) ==
    /\ t \in threads
    /\ pc[t] = "authed"
    /\ req[t].url = "kubeconfig"
    /\ req' = [req EXCEPT ![t] = [@ EXCEPT !.route = "kubeconfig"]]
    /\ IF ~kubeconfig_present
       THEN /\ pc' = [pc EXCEPT ![t] = "done"]
            /\ resp' = [resp EXCEPT ![t] = PlainResponse(404, "Kubeconfig file not found")]
       ELSE /\ pc' = [pc EXCEPT ![t] = "kc_read"]
            /\ resp' = resp
    /\ UNCHANGED <<machine_vars, run_vars, loc, trace, yaml_vars>>

\* the try block: open and read, rewrite, send_file; any exception is
\* answered with 500
DownloadRead(t) ==
    /\ pc[t] = "kc_read"
    /\ \E outcome \in FileOutcomes("open") :
         IF ~kubeconfig_present \/ outcome = "fail"
         THEN /\ resp' = [resp EXCEPT ![t] = PlainResponse(500, "Error reading kubeconfig")]
              /\ loc' = loc
         ELSE LET kubeconfig_content == kubeconfig_doc
                  current_hostname == get_current_hostname(TRUE)
              IN  /\ loc' = [loc EXCEPT ![t] =
                               [@ EXCEPT !.kubeconfig_content = kubeconfig_content,
                                         !.current_hostname = current_hostname]]
                  /\ resp' = [resp EXCEPT ![t] =
                                send_file(rewrite_kubeconfig(kubeconfig_content,
                                                             current_hostname))]
    /\ pc' = [pc EXCEPT ![t] = "done"]
    /\ UNCHANGED <<machine_vars, run_vars, req, trace, yaml_vars>>

\* the response is sent and the thread is free for the next request
Finish(t) ==
    /\ pc[t] = "done"
    /\ pc' = [pc EXCEPT ![t] = "idle"]
    /\ req' = [req EXCEPT ![t] = NoRequest]
    /\ loc' = [loc EXCEPT ![t] = NoLocals]
    /\ resp' = [resp EXCEPT ![t] = NoResponse]
    /\ trace' = [trace EXCEPT ![t] = <<>>]
    /\ UNCHANGED <<machine_vars, run_vars, yaml_vars>>

(***************************************************************************)
(* The environment: MicroShift removes and writes its kubeconfig file.     *)
(***************************************************************************)
KubeconfigRemoved ==
    /\ "microshift" \in unreliable
    /\ kubeconfig_present
    /\ kubeconfig_present' = FALSE
    /\ UNCHANGED <<hostname, shadow_password, cluster, tmpfiles, kubeconfig_doc,
                   run_vars, pc, req, loc, resp, trace, yaml_vars>>

KubeconfigWritten ==
    /\ "microshift" \in unreliable
    /\ ~kubeconfig_present
    /\ kubeconfig_present' = TRUE
    /\ UNCHANGED <<hostname, shadow_password, cluster, tmpfiles, kubeconfig_doc,
                   run_vars, pc, req, loc, resp, trace, yaml_vars>>

(***************************************************************************)
(* The service.                                                            *)
(***************************************************************************)
YamlIdle ==
    /\ yaml_in = VNull
    /\ yaml_out = <<>>
    /\ yaml_back = VNull
    /\ yaml_pc = "off"

HandlersIdle ==
    /\ pc = [t \in ThreadIds |-> "idle"]
    /\ req = [t \in ThreadIds |-> NoRequest]
    /\ loc = [t \in ThreadIds |-> NoLocals]
    /\ resp = [t \in ThreadIds |-> NoResponse]
    /\ trace = [t \in ThreadIds |-> <<>>]

MachineBooted ==
    /\ hostname = InitialHostname
    /\ shadow_password = InitialRootPassword
    /\ cluster = <<>>
    /\ tmpfiles = [n \in TempNames |-> [exists |-> FALSE, data |-> <<>>]]
    /\ kubeconfig_present = TRUE

Init ==
    /\ \E sc \in Scenarios :
         /\ threads = sc.threads
         /\ unreliable = sc.unreliable
         /\ kubeconfig_doc \in sc.docs
    /\ MachineBooted
    /\ HandlersIdle
    /\ YamlIdle

Next ==
    \/ \E t \in ThreadIds :
         \/ requires_auth(t)
         \/ index(t)
         \/ ConfigureStart(t)
         \/ SetRootPassword(t)
         \/ SetHostname(t)
         \/ ApplyCreateTemp(t)
         \/ ApplyWrite(t)
         \/ ApplyKubectl(t)
         \/ ApplyUnlink(t)
         \/ DownloadCheck(t)
         \/ DownloadRead(t)
         \/ Finish(t)
    \/ KubeconfigRemoved
    \/ KubeconfigWritten

Spec == Init /\ [][Next]_vars

(***************************************************************************)
(* The YAML emitter on its own: a manifest value is serialized and the     *)
(* text is read back by a YAML reader (as kubectl reads the manifest).     *)
(***************************************************************************)
\* the most entries of a map or a list of scalars
MaxItems == 2

YamlKeys == << <<"a">>, <<"b">> >>
YamlScalars ==
    { VStr(<<"a">>), VStr(<<"x", ":", "y">>), VStr(<<"-", "a">>), VStr(<<"#", "c">>),
      VStr(S_true), VStr(S_null), VStr(<<>>), VBool(TRUE), VBool(FALSE), VNull }

\* the sequences of 0..n items
RECURSIVE SeqsUpTo(_, _)
SeqsUpTo(items, n) ==
    IF n = 0 THEN {<<>>}
    ELSE SeqsUpTo(items, n - 1)
         \cup { Append(s, x) : s \in { q \in SeqsUpTo(items, n - 1) : Len(q) = n - 1 },
                               x \in items }

\* a map with the keys a, b, ... in this order
AsMap(values) == VMap([i \in 1..Len(values) |-> <<YamlKeys[i], values[i]>>])

\* maps and lists of scalars
FlatContainers ==
    { VList(s) : s \in SeqsUpTo(YamlScalars, MaxItems) }
    \cup { AsMap(s) : s \in SeqsUpTo(YamlScalars, MaxItems) }

\* maps and lists that hold a container, alone or before a scalar
NestedContainers ==
    { VList(<<c>>) : c \in FlatContainers }
    \cup { AsMap(<<c>>) : c \in FlatContainers }
    \cup { VList(<<c, s>>) : c \in FlatContainers, s \in YamlScalars }
    \cup { AsMap(<<c, s>>) : c \in FlatContainers, s \in YamlScalars }

\* the documents: maps and lists, nested to depth 2
YamlValues == FlatContainers \cup NestedContainers

InitYaml ==
    /\ threads = {}
    /\ unreliable = {}
    /\ kubeconfig_doc = TypicalDoc
    /\ MachineBooted
    /\ HandlersIdle
    /\ yaml_in \in YamlValues
    /\ yaml_out = <<>>
    /\ yaml_back = VNull
    /\ yaml_pc = "value"

\* yaml_content = json_to_yaml(cr)
Emit ==
    /\ yaml_pc = "value"
    /\ yaml_out' = json_to_yaml(yaml_in, 0)
    /\ yaml_pc' = "emitted"
    /\ UNCHANGED <<svc_vars, yaml_in, yaml_back>>

\* the consumer of the manifest parses the text
Load ==
    /\ yaml_pc = "emitted"
    /\ yaml_back' = yaml_load(yaml_out)
    /\ yaml_pc' = "loaded"
    /\ UNCHANGED <<svc_vars, yaml_in, yaml_out>>

NextYaml == Emit \/ Load

SpecYaml == InitYaml /\ [][NextYaml]_vars


(***************************************************************************)
(* What the claims speak of.                                               *)
(***************************************************************************)
\* the external commands of a request, and those of one program
Execs(tr) == SelectSeq(tr, LAMBDA e : e.ev = "exec")
ExecsOf(tr, name) == SelectSeq(tr, LAMBDA e : e.ev = "exec" /\ e.name = name)
\* the adapters a request called, in order
Calls(tr) == LET c == SelectSeq(tr, LAMBDA e : e.ev = "call")
             IN  [i \in 1..Len(c) |-> c[i].name]
\* the messages of a page with the code
MessagesOf(messages, code) == SelectSeq(messages, LAMBDA m : m.code = code)

\* the form fails validation: base domain empty after trimming, or image
\* empty, or password missing or shorter than 8 characters
FormInvalid(form) ==
    \/ Strip(form.baseDomain) = <<>>
    \/ Strip(form.image) = <<>>
    \/ Len(form.rootPassword) < 8

Configure(t) == req[t].route = "configure"
Download(t) == req[t].route = "kubeconfig"
Answered(t) == pc[t] = "done"
\* a validated POST /configure-jumpstarter
Validated(t) == Configure(t) /\ ~FormInvalid(req[t].form)

\* the step ran its command and the command succeeded
StepOk(tr, prog) == \E i \in 1..Len(tr) : tr[i].ev = "exec" /\ tr[i].name = prog
                                            /\ tr[i].outcome = "ok"

AddressQueries == {"ip route", "ip addr"}

(***************************************************************************)
(* C1 as stated: when validation fails the response carries an error       *)
(* message and no external command at all is invoked while the request is  *)
(* handled.                                                                *)
(***************************************************************************)
C1_NoExternalCommand ==
    \A t \in ThreadIds :
        Configure(t) /\ FormInvalid(req[t].form) /\ Answered(t)
        => /\ \E i \in 1..Len(resp[t].messages) : resp[t].messages[i].type = "error"
           /\ Execs(trace[t]) = <<>>

(***************************************************************************)
(* C1 amended: when validation fails the handler answers at once with the  *)
(* page and exactly one error message, calls no adapter and runs neither   *)
(* chpasswd, hostnamectl, kubectl nor any file operation; the only         *)
(* external commands of the request are the address queries (ip route,     *)
(* then at most one ip addr) that fill the page.                           *)
(***************************************************************************)
C1_NoAdapterOnInvalidForm ==
    \A t \in ThreadIds :
        Configure(t) /\ FormInvalid(req[t].form)
        => /\ Answered(t)
           /\ resp[t].status = 200 /\ resp[t].page = "html"
           /\ Len(resp[t].messages) = 1 /\ resp[t].messages[1].type = "error"
           /\ Calls(trace[t]) = <<>>
           /\ \A i \in 1..Len(trace[t]) :
                trace[t][i].ev = "exec" /\ trace[t][i].name \in AddressQueries
           /\ Len(ExecsOf(trace[t], "ip route")) = 1
           /\ Len(ExecsOf(trace[t], "ip addr")) <= 1

\* a request with a 7-character password was refused, the address queries made
C1_Witness ==
    \E t \in ThreadIds :
        /\ Configure(t) /\ Answered(t)
        /\ req[t].form.rootPassword = Pw7
        /\ resp[t].messages[1].code = "password_required"
        /\ Len(Execs(trace[t])) = 2


(***************************************************************************)
(* C2: for a validated POST /configure-jumpstarter, whatever the outcomes  *)
(* of the three steps, the page holds exactly one error message for each   *)
(* step that failed and none for a step that succeeded, the success        *)
(* message exactly when all three succeeded, and nothing else.             *)
(***************************************************************************)
Count(b) == IF b THEN 1 ELSE 0

C2_OneErrorPerFailedStep ==
    \A t \in ThreadIds :
        Validated(t) /\ Answered(t)
        => LET m == resp[t].messages
               pw == StepOk(trace[t], "chpasswd")
               hn == StepOk(trace[t], "hostnamectl")
               cr == StepOk(trace[t], "kubectl")
           IN  /\ Len(MessagesOf(m, "password_failed")) = Count(~pw)
               /\ Len(MessagesOf(m, "hostname_failed")) = Count(~hn)
               /\ Len(MessagesOf(m, "cr_failed")) = Count(~cr)
               /\ Len(MessagesOf(m, "applied")) = Count(pw /\ hn /\ cr)
               /\ Len(m) = Count(~pw) + Count(~hn) + Count(~cr) + Count(pw /\ hn /\ cr)
               /\ \A i \in 1..Len(m) : m[i].type = "success" <=> m[i].code = "applied"

\* the password step failed, the other two succeeded: one error, naming the
\* password step, and no success message
C2_Witness ==
    \E t \in ThreadIds :
        /\ Validated(t) /\ Answered(t)
        /\ ~StepOk(trace[t], "chpasswd")
        /\ StepOk(trace[t], "hostnamectl")
        /\ StepOk(trace[t], "kubectl")
        /\ Len(resp[t].messages) = 1
        /\ resp[t].messages[1].code = "password_failed"

(***************************************************************************)
(* C3: a validated POST /configure-jumpstarter calls the three adapters    *)
(* once each, in the order set_root_password, set_hostname,                *)
(* apply_jumpstarter_cr, whatever the earlier steps returned; no command   *)
(* is run twice; and what a step changed stays changed when a later step   *)
(* fails (checked where no other request runs beside it).                  *)
(***************************************************************************)
AdapterOrder == <<"set_root_password", "set_hostname", "apply_jumpstarter_cr">>

C3_EachAdapterOnceInOrder ==
    \A t \in ThreadIds :
        Validated(t)
        => /\ Len(Calls(trace[t])) <= 3
           /\ Calls(trace[t]) = SubSeq(AdapterOrder, 1, Len(Calls(trace[t])))
           /\ \A prog \in {"chpasswd", "hostnamectl", "kubectl"} :
                Len(ExecsOf(trace[t], prog)) <= 1
           /\ Answered(t)
              => /\ Calls(trace[t]) = AdapterOrder
                 /\ Len(ExecsOf(trace[t], "chpasswd")) = 1
                 /\ Len(ExecsOf(trace[t], "hostnamectl")) = 1
                 /\ threads = {t}
                    => /\ StepOk(trace[t], "chpasswd") => shadow_password = loc[t].root_password
                       /\ StepOk(trace[t], "hostnamectl") => hostname = loc[t].base_domain
                       /\ StepOk(trace[t], "kubectl") => cluster = loc[t].yaml_content

\* the password was set, the hostname step failed, the manifest step ran
\* all the same and failed too: the new password is still in place
C3_Witness ==
    \E t \in ThreadIds :
        /\ Validated(t) /\ Answered(t)
        /\ StepOk(trace[t], "chpasswd")
        /\ ~StepOk(trace[t], "hostnamectl")
        /\ Len(ExecsOf(trace[t], "kubectl")) = 1
        /\ ~StepOk(trace[t], "kubectl")
        /\ shadow_password = Pw8
        /\ Calls(trace[t]) = AdapterOrder


(***************************************************************************)
(* C4 as stated: every call of apply_jumpstarter_cr that created a         *)
(* temporary file has removed it when it returns, whatever the outcome     *)
(* (kubectl succeeds, fails or cannot start, or writing the manifest       *)
(* fails), unless the deletion itself fails; a failed deletion does not    *)
(* change the returned result.                                             *)
(***************************************************************************)
InApply == {"write", "kubectl", "unlink"}
Last(q) == q[Len(q)]

C4_TempFileRemovedOnReturn ==
    [][ \A t \in ThreadIds :
          pc[t] \in InApply /\ pc'[t] = "done"
          => LET n == loc[t].f_name
                 unlink_failed == Last(trace'[t]) = FileOp("unlink", "fail", n)
             IN  /\ ~tmpfiles'[n].exists \/ unlink_failed
                 /\ pc[t] = "unlink" => /\ loc'[t].cr_success = loc[t].cr_success
                                        /\ loc'[t].cr_message = loc[t].cr_message ]_vars

(***************************************************************************)
(* C5: with requests handled concurrently, each request in                 *)
(* apply_jumpstarter_cr has a temporary file of its own, which exists      *)
(* until that request removes it and holds what that request wrote, and    *)
(* kubectl reads that file: the manifest it reads carries the base domain  *)
(* and the image of the same request.                                      *)
(***************************************************************************)
\* the value under a key of a map
MapGet(value, key) ==
    LET i == CHOOSE k \in 1..Len(value.v) : value.v[k][1] = key IN value.v[i][2]

\* the manifest text names the base domain and the image
Carries(text, base_domain, image) ==
    LET doc == yaml_load(text)
    IN  /\ doc.t = "map"
        /\ \E k \in 1..Len(doc.v) : doc.v[k][1] = S_spec
        /\ LET sp == MapGet(doc, S_spec)
           IN  /\ sp.t = "map"
               /\ Len(sp.v) = 2
               /\ MapGet(sp, S_baseDomain) = VStr(base_domain)
               /\ MapGet(sp, S_image) = VStr(image)

C5_TempFileRequestScoped ==
    \A t \in ThreadIds :
        /\ pc[t] \in InApply
           => /\ tmpfiles[loc[t].f_name].exists
              /\ \A u \in ThreadIds \ {t} :
                    pc[u] \in InApply => loc[u].f_name # loc[t].f_name
        /\ pc[t] = "write" => tmpfiles[loc[t].f_name].data = <<>>
        /\ pc[t] \in {"kubectl", "unlink"}
           => /\ loc[t].temp_file = loc[t].f_name
              /\ tmpfiles[loc[t].temp_file].data = loc[t].yaml_content
        /\ \A i \in 1..Len(trace[t]) :
              LET e == trace[t][i]
              IN  e.ev = "exec" /\ e.name = "kubectl" /\ e.outcome # "nostart"
                  => /\ e.file = loc[t].temp_file
                     /\ Carries(e.arg, loc[t].base_domain, loc[t].image)

\* two requests with different base domains are both between the write and
\* the removal of their files, one of them having run kubectl
C5_Witness ==
    /\ pc["t1"] = "kubectl"
    /\ pc["t2"] = "unlink"
    /\ loc["t1"].base_domain # loc["t2"].base_domain
    /\ loc["t1"].temp_file # loc["t2"].temp_file
    /\ StepOk(trace["t2"], "kubectl")

(***************************************************************************)
(* C6 as stated: a GET /kubeconfig answered while the kubeconfig file is   *)
(* absent is answered 404, never 500, also when the file disappears        *)
(* between the existence check and the read.                               *)
(***************************************************************************)
C6_AbsentKubeconfigIs404 ==
    [][ \A t \in ThreadIds :
          pc[t] # "done" /\ pc'[t] = "done" /\ Download(t)' /\ ~kubeconfig_present
          => resp'[t].status = 404 ]_vars


(***************************************************************************)
(* C7 as stated: in the text GET /kubeconfig serves, every line matching   *)
(* 'server: https://<anything>' is immediately followed by the line        *)
(* '    insecure-skip-tls-verify: true', also when it is the last line of  *)
(* the file without a line end, and the flag line stands nowhere else.     *)
(***************************************************************************)
InsecureFlag == SubSeq(S_insecure_line, 1, Len(S_insecure_line) - 1)
Blank == {" ", "\t"}

\* where in the line 'https://' begins after 'server:' and blanks; 0 if nowhere
ServerUrlAt(line) ==
    LET hits == { j \in 1..Len(line) :
                    /\ MatchAt(line, j, RE_https)
                    /\ j + Len(RE_https) <= Len(line)
                    /\ \E i \in 1..(j - 1) :
                          /\ MatchAt(line, i, RE_server)
                          /\ i + Len(RE_server) < j
                          /\ \A k \in (i + Len(RE_server))..(j - 1) : line[k] \in Blank }
    IN  IF hits = {} THEN 0 ELSE CHOOSE j \in hits : \A k \in hits : j <= k
IsServerLine(line) == ServerUrlAt(line) > 0

Served(t) == Download(t) /\ Answered(t) /\ resp[t].status = 200

C7_FlagAfterEveryServerLine ==
    \A t \in ThreadIds :
        Served(t)
        => LET out == SplitLines(resp[t].body)
           IN  /\ \A i \in 1..Len(out) :
                     IsServerLine(out[i]) => i < Len(out) /\ out[i + 1] = InsecureFlag
               /\ \A i \in 1..Len(out) :
                     out[i] = InsecureFlag => i > 1 /\ IsServerLine(out[i - 1])

(***************************************************************************)
(* C8: the text GET /kubeconfig serves has the server entries of the file  *)
(* in the same order, each 'localhost:<port>' entry naming the system      *)
(* hostname at the time of the download with the same port, every other    *)
(* entry keeping its host and port; the system hostname changes only by a  *)
(* successful hostname step, which sets it to the base domain of that      *)
(* request, so a download after it names that base domain.                 *)
(***************************************************************************)
S_localhost == <<"l", "o", "c", "a", "l", "h", "o", "s", "t">>

\* the host and the port the server line names
ServerOf(line) ==
    LET a == ServerUrlAt(line) + Len(RE_https)
        h == Run(line, a, NotNewline(line) \ {":"})
        d == IF a + h <= Len(line) /\ line[a + h] = ":" THEN Run(line, a + h + 1, RE_digit)
             ELSE 0
    IN  [host |-> SubSeq(line, a, a + h - 1), port |-> SubSeq(line, a + h + 1, a + h + d)]

\* the server entries of a document, in order
Servers(text) ==
    LET ls == SelectSeq(SplitLines(text), IsServerLine)
    IN  [i \in 1..Len(ls) |-> ServerOf(ls[i])]

\* the entries with every localhost entry naming the host instead
Rehosted(entries, host) ==
    [i \in 1..Len(entries) |->
        IF entries[i].host = S_localhost /\ entries[i].port # <<>>
        THEN [host |-> host, port |-> entries[i].port]
        ELSE entries[i]]

C8_ServedEntries ==
    \A t \in ThreadIds :
        Served(t)
        => /\ Servers(resp[t].body)
                = Rehosted(Servers(loc[t].kubeconfig_content), loc[t].current_hostname)
           /\ threads = {t} => loc[t].current_hostname = hostname

C8_HostnameSteps ==
    /\ \A t \in ThreadIds :
          pc[t] = "kc_read" /\ Served(t)'
          => /\ loc'[t].current_hostname = hostname
             /\ loc'[t].kubeconfig_content = kubeconfig_doc
    /\ hostname' # hostname
       => \E t \in ThreadIds :
             /\ pc[t] = "hostname"
             /\ Validated(t)
             /\ StepOk(trace'[t], "hostnamectl")
             /\ hostname' = Strip(req[t].form.baseDomain)
    /\ \A t \in ThreadIds :
          pc[t] = "hostname" /\ StepOk(trace'[t], "hostnamectl")
          => hostname' = Strip(req[t].form.baseDomain)

C8_LocalhostBecomesHostname == [](C8_ServedEntries) /\ [][C8_HostnameSteps]_vars

\* a download, after a configuration set the hostname to a base domain, of a
\* file with a localhost entry and another one
C8_Witness ==
    /\ Served("t1")
    /\ hostname = D_a
    /\ \E i, j \in 1..Len(Servers(kubeconfig_doc)) :
          /\ Servers(kubeconfig_doc)[i].host = S_localhost
          /\ Servers(kubeconfig_doc)[j].host # S_localhost
          /\ Servers(resp["t1"].body)[i].host = D_a
          /\ Servers(resp["t1"].body)[i].port = Servers(kubeconfig_doc)[i].port


(***************************************************************************)
(* C9 as stated: for every value of the supported model, reading           *)
(* json_to_yaml(value) with a YAML reader gives back a value equal to the  *)
(* original in structure, scalar type and content.                         *)
(***************************************************************************)
RECURSIVE SameValue(_, _)
SameValue(a, b) ==
    /\ a.t = b.t
    /\ CASE a.t \in {"str", "bool"} -> a.v = b.v
         [] a.t = "null" -> TRUE
         [] a.t = "list" -> /\ Len(a.v) = Len(b.v)
                            /\ \A i \in 1..Len(a.v) : SameValue(a.v[i], b.v[i])
         [] a.t = "map" -> /\ Len(a.v) = Len(b.v)
                           /\ \A i \in 1..Len(a.v) : /\ a.v[i][1] = b.v[i][1]
                                                     /\ SameValue(a.v[i][2], b.v[i][2])

C9_YamlRoundTrip == yaml_pc = "loaded" => SameValue(yaml_back, yaml_in)

(***************************************************************************)
(* C10: a failure of chpasswd, hostnamectl or kubectl (a non-zero exit, or *)
(* the program cannot be started) becomes the (False, message) result of   *)
(* its adapter and never leaves it; a validated POST /configure-jumpstarter*)
(* therefore always ends with the HTML page, the failures as messages in   *)
(* it, and never with an unhandled fault, whichever adapters fail.         *)
(***************************************************************************)
StepFailed(tr, prog) == \E i \in 1..Len(tr) : tr[i].ev = "exec" /\ tr[i].name = prog
                                                /\ tr[i].outcome # "ok"
HasError(messages, code) == Len(MessagesOf(messages, code)) > 0

C10_FailuresBecomeMessages ==
    \A t \in ThreadIds :
        Validated(t)
        => /\ resp[t].page # "fault"
           /\ StepFailed(trace[t], "chpasswd") => ~loc[t].password_success
           /\ StepFailed(trace[t], "hostnamectl") => ~loc[t].hostname_success
           /\ StepFailed(trace[t], "kubectl") => ~loc[t].cr_success
           /\ Answered(t)
              => /\ resp[t].page = "html"
                 /\ resp[t].status = 200
                 /\ StepFailed(trace[t], "chpasswd")
                    => HasError(resp[t].messages, "password_failed")
                 /\ StepFailed(trace[t], "hostnamectl")
                    => HasError(resp[t].messages, "hostname_failed")
                 /\ StepFailed(trace[t], "kubectl")
                    => HasError(resp[t].messages, "cr_failed")

\* all three commands failed, two of them because the program could not be
\* started, and the request ended with the page
C10_Witness ==
    \E t \in ThreadIds :
        /\ Validated(t) /\ Answered(t)
        /\ \E i \in 1..Len(trace[t]) :
              trace[t][i].name = "chpasswd" /\ trace[t][i].outcome = "nostart"
        /\ \E i \in 1..Len(trace[t]) :
              trace[t][i].name = "hostnamectl" /\ trace[t][i].outcome = "nostart"
        /\ \E i \in 1..Len(trace[t]) :
              trace[t][i].name = "kubectl" /\ trace[t][i].outcome = "nonzero"
        /\ resp[t].page = "html"
        /\ Len(resp[t].messages) = 3


(***************************************************************************)
(* C11: on every route, a request without credentials, with a username     *)
(* other than root, or with credentials check_auth rejects is answered 401 *)
(* and its view function is not entered: it calls no adapter, runs no      *)
(* command, does not read the kubeconfig file; a view function runs only   *)
(* for a request check_auth returned true for; and the hostname, the root  *)
(* password and the cluster change only in a step of such a request.       *)
(***************************************************************************)
Unauthorized(t) ==
    /\ req[t].url # "none"
    /\ \/ ~req[t].auth.present
       \/ req[t].auth.username # S_root
       \/ ~req[t].checked

C11_Rejected ==
    \A t \in ThreadIds :
        /\ Unauthorized(t)
           => /\ Answered(t)
              /\ resp[t].status = 401
              /\ req[t].route = "none"
              /\ trace[t] = <<>>
              /\ loc[t] = NoLocals
        /\ req[t].route # "none" \/ pc[t] \notin {"idle", "done"}
           => /\ req[t].checked
              /\ req[t].auth.present
              /\ req[t].auth.username = S_root
              /\ req[t].route \in {"none", req[t].url}

C11_MachineSteps ==
    /\ \A t \in ThreadIds :
          pc[t] = "idle" /\ Unauthorized(t)'
          => UNCHANGED <<hostname, shadow_password, cluster, tmpfiles>>
    /\ <<hostname, shadow_password, cluster, tmpfiles>>'
          # <<hostname, shadow_password, cluster, tmpfiles>>
       => \E t \in ThreadIds :
             /\ req[t].checked
             /\ req[t].route = "configure"
             /\ pc'[t] # pc[t]

C11_NoHandlerWithoutAuth == [](C11_Rejected) /\ [][C11_MachineSteps]_vars

\* a configuration request with the root username and a password that is not
\* the root password is answered 401, while an earlier request has changed the
\* hostname
C11_Witness ==
    /\ pc["t1"] = "done"
    /\ req["t1"].url = "configure"
    /\ req["t1"].auth.username = S_root
    /\ req["t1"].auth.password # shadow_password
    /\ ~req["t1"].checked
    /\ resp["t1"].status = 401
    /\ hostname = D_a


=============================================================================
